---- MODULE Spec2Model ----
(***************************************************************************)
(* The `certfix apply` command (cmd/certfix/apply.go): the six-phase       *)
(* forward pass over a YAML document, the created-resource ledger and the  *)
(* reverse-order rollback sweep, run against a remote API reached through  *)
(* the HTTP transport (pkg/client/client.go), after the credential store   *)
(* (auth.GetToken) has handed out a token.                                 *)
(*                                                                         *)
(* The remote service is not part of the repository.  It is modelled as    *)
(* the environment: every call may fail, the remote encodes the           *)
(* identifiers of its replies as JSON strings or not (the code's           *)
(* `.(string)` assertions decide on that), and a successful POST/DELETE    *)
(* adds/removes the resource the path addresses; names and hashes are      *)
(* unique at the remote.  Pass-through payload fields that no step reads   *)
(* (severity, enabled, description, cron_config, ...) are left out.        *)
(***************************************************************************)
EXTENDS Integers, Sequences, FiniteSets, TLC

(***************************************************************************)
(* Bounds of the model.                                                    *)
(***************************************************************************)
MaxEvents == 2
MaxPolicies == 1
MaxGroups == 1
MaxServices == 2
MaxKeys == 1
MaxRelations == 1
\* how many DELETE calls of one sweep the remote lets fail
MaxDeleteFailures == 1
\* the longest response body the transport is given
MaxBodyLen == 4
\* the last hour of the clock, and how many operations a credential-store
\* session has
MaxClock == 26
MaxOps == 4

(***************************************************************************)
(* The configuration document (pkg/models/models.go).                      *)
(***************************************************************************)
Name(prefix, i) == prefix \o ToString(i)

\* a reference that names nothing the document declares or the remote holds
DanglingPolicy == "pX"
DanglingGroup == "gX"

EventConfig(i) == [name |-> Name("e", i)]
PolicyConfig(i) == [name |-> Name("p", i)]
ServiceGroupConfig(i) == [name |-> Name("g", i)]
ServiceKeyConfig(j) == [name |-> Name("k", j)]
ServiceRelationConfig(j) == [target_hash |-> Name("t", j)]

\* what a service of the document may look like: (group_name, policy_name,
\* number of keys, number of relations)
ServiceProfiles ==
    { [group_name |-> "", policy_name |-> "", nkeys |-> 0, nrels |-> 0],
      [group_name |-> Name("g", 1), policy_name |-> Name("p", 1),
       nkeys |-> MaxKeys, nrels |-> MaxRelations],
      [group_name |-> "", policy_name |-> DanglingPolicy, nkeys |-> 0, nrels |-> 0],
      [group_name |-> DanglingGroup, policy_name |-> "", nkeys |-> 0, nrels |-> 0] }

ServiceConfig(i, prof) ==
    [hash |-> Name("svc", i),
     group_name |-> prof.group_name,
     policy_name |-> prof.policy_name,
     keys |-> [j \in 1..prof.nkeys |-> ServiceKeyConfig(j)],
     relations |-> [j \in 1..prof.nrels |-> ServiceRelationConfig(j)]]

CertfixConfig(ne, np, ng, profs) ==
    [events |-> [i \in 1..ne |-> EventConfig(i)],
     policies |-> [i \in 1..np |-> PolicyConfig(i)],
     service_groups |-> [i \in 1..ng |-> ServiceGroupConfig(i)],
     services |-> [i \in 1..Len(profs) |-> ServiceConfig(i, profs[i])]]

SeqsUpTo(S, n) == UNION { [1..k -> S] : k \in 0..n }

\* the documents of the model: each of the first three lists is empty or
\* full, the services are any list of profiles up to MaxServices
Documents ==
    { CertfixConfig(ne, np, ng, profs) :
        ne \in {0, MaxEvents}, np \in {0, MaxPolicies}, ng \in {0, MaxGroups},
        profs \in SeqsUpTo(ServiceProfiles, MaxServices) }

(***************************************************************************)
(* The credential store (auth.GetToken).                                   *)
(***************************************************************************)
NoFile == [exists |-> FALSE, Token |-> "", ExpiresAt |-> 0]
TokenData(tok, exp) == [exists |-> TRUE, Token |-> tok, ExpiresAt |-> exp]

\* GetToken without the expiry check
GetTokenNoExpiry(file, clock) ==
    IF ~file.exists THEN [ok |-> FALSE, token |-> "", err |-> "not authenticated"]
    ELSE [ok |-> TRUE, token |-> file.Token, err |-> ""]

\* GetToken: the token file is missing -> error; expired -> error; else the token
GetToken(file, clock) ==
    IF ~file.exists THEN [ok |-> FALSE, token |-> "", err |-> "not authenticated"]
    ELSE IF clock > file.ExpiresAt
         THEN [ok |-> FALSE, token |-> "", err |-> "token expired"]
         ELSE [ok |-> TRUE, token |-> file.Token, err |-> ""]

\* IsAuthenticated: GetToken returned no error
IsAuthenticated(file, clock) == GetToken(file, clock).ok

\* the default lifetime of a stored token, in hours
DefaultExpiration == 24

\* the tokens handed to StoreToken, and what jwt's ParseUnverified reads
\* from each: MapClaims with a numeric "exp", or without one (an opaque
\* string, or a JWT whose exp is missing or not a number)
JWTs == {"opaque", "exp2", "exp25"}
NoClaims == [hasExp |-> FALSE, exp |-> 0]
ParseUnverified(jwt) ==
    CASE jwt = "exp2" -> [hasExp |-> TRUE, exp |-> 2]
      [] jwt = "exp25" -> [hasExp |-> TRUE, exp |-> 25]
      [] OTHER -> NoClaims

StoreReturn(file, e) == [file |-> file, err |-> e]

\* StoreToken: ExpiresAt is the exp claim, or now + 24h without one; the
\* file is replaced unless the directory or the file cannot be written
StoreToken(file, jwt, clock, fault) ==
    LET claims == ParseUnverified(jwt)
        expiresAt == IF claims.hasExp THEN claims.exp
                     ELSE clock + DefaultExpiration
    IN  IF fault THEN StoreReturn(file, "failed to write token file")
        ELSE StoreReturn(TokenData(jwt, expiresAt), "")

\* Logout that leaves the file where it is
LogoutKeepsFile(file, fault) == StoreReturn(file, "")

\* Logout: the file is removed; a missing file is no error; any other
\* failure of os.Remove is returned and leaves the file
Logout(file, fault) ==
    IF ~file.exists THEN StoreReturn(file, "")
    ELSE IF fault THEN StoreReturn(file, "failed to remove token file")
    ELSE StoreReturn(NoFile, "")

(***************************************************************************)
(* applyConfiguration: the order in which the forward pass visits the      *)
(* document.  An item is (kind, i, j): the i-th entry of its list, and     *)
(* for keys and relations the j-th key/relation of the i-th service.       *)
(***************************************************************************)
Item(kind, i, j) == [kind |-> kind, i |-> i, j |-> j]

EventItems(config) == [i \in 1..Len(config.events) |-> Item("event", i, 0)]
PolicyItems(config) == [i \in 1..Len(config.policies) |-> Item("policy", i, 0)]
GroupItems(config) ==
    [i \in 1..Len(config.service_groups) |-> Item("service_group", i, 0)]
ServiceItems(config) == [i \in 1..Len(config.services) |-> Item("service", i, 0)]

RECURSIVE KeyItems(_, _)
KeyItems(config, s) ==
    IF s > Len(config.services) THEN <<>>
    ELSE [j \in 1..Len(config.services[s].keys) |-> Item("key", s, j)]
         \o KeyItems(config, s + 1)

RECURSIVE RelationItems(_, _)
RelationItems(config, s) ==
    IF s > Len(config.services) THEN <<>>
    ELSE [j \in 1..Len(config.services[s].relations) |-> Item("relation", s, j)]
         \o RelationItems(config, s + 1)

\* the forward pass with the keys created before their services
applyConfigurationKeysFirst(config) ==
    EventItems(config) \o PolicyItems(config) \o GroupItems(config)
    \o KeyItems(config, 1) \o ServiceItems(config) \o RelationItems(config, 1)

applyConfiguration(config) ==
    EventItems(config) \o PolicyItems(config) \o GroupItems(config)
    \o ServiceItems(config) \o KeyItems(config, 1) \o RelationItems(config, 1)

(***************************************************************************)
(* Transport calls (HTTPClient.request) and JSON values of a reply.        *)
(***************************************************************************)
\* a field of a JSON object: a string, something else, or not there
Absent == [t |-> "absent", v |-> ""]
Str(v) == [t |-> "string", v |-> v]
NotStr(v) == [t |-> "number", v |-> v]

\* v.(string): the value and ok
IsString(x) == x.t = "string"

NoPayload == [none |-> TRUE]
NoPath == <<>>

Call(method, path, payload, ok, item) ==
    [method |-> method, path |-> path, payload |-> payload, ok |-> ok, item |-> item]

\* Go's error values: nil, or what failed (kind, message) and, once
\* applyConfiguration has wrapped it, at which item
NoItem == Item("none", 0, 0)
NoError == [kind |-> "none", msg |-> "", item |-> NoItem]
Error(kind, msg) == [kind |-> kind, msg |-> msg, item |-> NoItem]
Wrap(e, item) == IF e = NoError THEN NoError ELSE [e EXCEPT !.item = item]

\* the error request() returns for a failed call
RequestFailed == Error("transport", "request failed")

(***************************************************************************)
(* The ledger entries the create functions append (models.CreatedResource) *)
(***************************************************************************)
CreatedResource(type, hash, id) == [Type |-> type, Hash |-> hash, ID |-> id]

EventEntry(event) == CreatedResource("event", event.name, "")
PolicyEntry(policy) == CreatedResource("policy", policy.name, "")
ServiceGroupEntry(group) == CreatedResource("service_group", group.name, "")
ServiceEntry(service) == CreatedResource("service", service.hash, "")
KeyEntry(serviceHash, keyID) == CreatedResource("key", serviceHash, keyID)
RelationEntry(sourceHash, relation) ==
    CreatedResource("relation", sourceHash, relation.target_hash)

(***************************************************************************)
(* The remote: what a successful call does to it.                          *)
(***************************************************************************)
RemoteGroupId(rem, name) ==
    LET hit == { g \in rem.groups : g.name = name }
    IN  IF hit = {} THEN "" ELSE (CHOOSE g \in hit : TRUE).id

HasGroup(rem, name) == \E g \in rem.groups : g.name = name

\* DELETE path: the resource the path addresses is gone
RemoteDelete(rem, path) ==
    IF Len(path) = 4 /\ path[1] = "services" /\ path[3] = "matriz"
    THEN [rem EXCEPT !.relations = @ \ {[src |-> path[2], dst |-> path[4]]}]
    ELSE IF Len(path) = 4 /\ path[1] = "services" /\ path[3] = "keys"
    THEN [rem EXCEPT !.keys = @ \ {[svc |-> path[2], id |-> path[4]]}]
    ELSE IF Len(path) = 2 /\ path[1] = "services"
    THEN [rem EXCEPT !.services = @ \ {path[2]}]
    ELSE IF Len(path) = 2 /\ path[1] = "service-groups"
    THEN [rem EXCEPT !.groups = { g \in @ : g.name # path[2] /\ g.id # path[2] }]
    ELSE IF Len(path) = 2 /\ path[1] = "policy"
    THEN [rem EXCEPT !.policies = SelectSeq(@, LAMBDA p : p.name # path[2] /\ p.id # path[2])]
    ELSE IF Len(path) = 2 /\ path[1] = "eventos"
    THEN [rem EXCEPT !.events = @ \ {path[2]}]
    ELSE rem

(***************************************************************************)
(* The create functions.  Each is given the remote it talks to, the        *)
(* outcome of every call it may issue, and returns what it did: the calls  *)
(* issued, the ledger entries appended, the error returned, the remote     *)
(* afterwards.                                                             *)
(***************************************************************************)
Outcome(cs, entries, e, rem, nid) ==
    [calls |-> cs, entries |-> entries, err |-> e, remote |-> rem, nextId |-> nid]

\* createEvent appending its entry before it looks at the POST's error
createEventAppendFirst(rem, nid, event, item, ok) ==
    LET post == Call("POST", <<"events">>, [name |-> event.name], ok, item)
    IN  IF ~ok THEN Outcome(<<post>>, <<EventEntry(event)>>, RequestFailed, rem, nid)
        ELSE Outcome(<<post>>, <<EventEntry(event)>>, NoError,
                     [rem EXCEPT !.events = @ \cup {event.name}], nid)

createEvent(rem, nid, event, item, ok) ==
    LET post == Call("POST", <<"events">>, [name |-> event.name], ok, item)
    IN  IF ~ok THEN Outcome(<<post>>, <<>>, RequestFailed, rem, nid)
        ELSE Outcome(<<post>>, <<EventEntry(event)>>, NoError,
                     [rem EXCEPT !.events = @ \cup {event.name}], nid)

createPolicy(rem, nid, policy, item, ok) ==
    LET post == Call("POST", <<"politicas">>, [name |-> policy.name], ok, item)
    IN  IF ~ok THEN Outcome(<<post>>, <<>>, RequestFailed, rem, nid)
        ELSE Outcome(<<post>>, <<PolicyEntry(policy)>>, NoError,
                     [rem EXCEPT !.policies =
                         Append(@, [name |-> policy.name, id |-> Name("pid", nid)])],
                     nid + 1)

createServiceGroup(rem, nid, group, item, ok) ==
    LET post == Call("POST", <<"service-groups">>, [name |-> group.name], ok, item)
    IN  IF ~ok THEN Outcome(<<post>>, <<>>, RequestFailed, rem, nid)
        ELSE Outcome(<<post>>, <<ServiceGroupEntry(group)>>, NoError,
                     [rem EXCEPT !.groups =
                         @ \cup {[name |-> group.name, id |-> Name("gid", nid)]}],
                     nid + 1)

\* the reply to GET /service-groups/name/<name>: the group, its identifier a
\* JSON string or not
GroupReply(rem, name, typed) ==
    [service_group_id |->
        IF typed THEN Str(RemoteGroupId(rem, name)) ELSE NotStr(RemoteGroupId(rem, name))]

\* the reply to GET /politicas: the whole list, in the remote's order
PolicyListReply(rem, typed) ==
    [k \in 1..Len(rem.policies) |->
        [name |-> Str(rem.policies[k].name),
         politica_id |-> IF typed THEN Str(rem.policies[k].id)
                         ELSE NotStr(rem.policies[k].id)]]

\* createService's scan of the policy list: the politica_id of the first entry
\* whose name is policyName and whose politica_id is a string
RECURSIVE ScanPolicies(_, _, _)
ScanPolicies(arrayData, policyName, k) ==
    IF k > Len(arrayData) THEN Absent
    ELSE IF /\ IsString(arrayData[k].name)
            /\ arrayData[k].name.v = policyName
            /\ IsString(arrayData[k].politica_id)
         THEN arrayData[k].politica_id
         ELSE ScanPolicies(arrayData, policyName, k + 1)

\* payload["service_group_id"] after the group lookup
GroupIdField(response) ==
    IF IsString(response.service_group_id) THEN response.service_group_id ELSE Absent

ServicePayload(service, groupField, policyField) ==
    [service_hash |-> service.hash,
     service_group_id |-> groupField,
     politica_id |-> policyField]

\* the existence check answered 2xx and every hit is a conflict
serviceExistsConflict(check, rem, nid, service, skip) ==
    Outcome(<<check>>, <<>>, Error("conflict", "service already exists"), rem, nid)

\* the existence check answered 2xx and the service found is taken into the
\* ledger
serviceExistsAdopt(check, rem, nid, service, skip) ==
    IF skip
    THEN Outcome(<<check>>, <<ServiceEntry(service)>>, NoError, rem, nid)
    ELSE Outcome(<<check>>, <<>>, Error("conflict", "service already exists"), rem, nid)

\* if err == nil { if skipExisting { return nil }; return "service already
\* exists" }: nothing is posted, nothing is appended
serviceExists(check, rem, nid, service, skip) ==
    IF skip
    THEN Outcome(<<check>>, <<>>, NoError, rem, nid)
    ELSE Outcome(<<check>>, <<>>, Error("conflict", "service already exists"), rem, nid)

\* c: the outcome of each call createService may issue
\*    exists      GET /services/<hash> answered 2xx
\*    groupOk     GET /service-groups/name/<group_name> answered 2xx
\*    policyOk    GET /politicas answered 2xx
\*    postOk      POST /services answered 2xx
\* typed: the replies carry their identifiers as JSON strings
createService(rem, nid, service, item, skip, c, typed) ==
    LET check == Call("GET", <<"services", service.hash>>, NoPayload, c.exists, item)
        wantGroup == service.group_name # ""
        groupGet == Call("GET", <<"service-groups", "name", service.group_name>>,
                         NoPayload, c.groupOk, item)
        groupField == IF wantGroup
                      THEN GroupIdField(GroupReply(rem, service.group_name, typed))
                      ELSE Absent
        afterGroup == <<check>> \o (IF wantGroup THEN <<groupGet>> ELSE <<>>)
        wantPolicy == service.policy_name # ""
        policyGet == Call("GET", <<"politicas">>, NoPayload, c.policyOk, item)
        policyField == IF wantPolicy
                       THEN ScanPolicies(PolicyListReply(rem, typed),
                                         service.policy_name, 1)
                       ELSE Absent
        afterPolicy == afterGroup \o (IF wantPolicy THEN <<policyGet>> ELSE <<>>)
        post == Call("POST", <<"services">>,
                     ServicePayload(service, groupField, policyField), c.postOk, item)
    IN  IF c.exists
        THEN serviceExists(check, rem, nid, service, skip)
        ELSE IF wantGroup /\ ~c.groupOk
        THEN Outcome(afterGroup, <<>>,
                     Error("reference", "failed to find service group"), rem, nid)
        ELSE IF wantPolicy /\ ~c.policyOk
        THEN Outcome(afterPolicy, <<>>,
                     Error("transport", "failed to get politicas"), rem, nid)
        ELSE IF ~c.postOk
        THEN Outcome(afterPolicy \o <<post>>, <<>>, RequestFailed, rem, nid)
        ELSE Outcome(afterPolicy \o <<post>>, <<ServiceEntry(service)>>, NoError,
                     [rem EXCEPT !.services = @ \cup {service.hash}], nid)

\* the reply to POST /services/<hash>/keys: the key, its identifier a JSON
\* string or not
KeyReply(nid, typed) ==
    [key_id |-> IF typed THEN Str(Name("kid", nid)) ELSE NotStr(Name("kid", nid))]

\* keyID := ""; if id, ok := response["key_id"].(string); ok { keyID = id }
KeyIdOf(response) == IF IsString(response.key_id) THEN response.key_id.v ELSE ""

createServiceKey(rem, nid, serviceHash, key, item, ok, typed) ==
    LET post == Call("POST", <<"services", serviceHash, "keys">>,
                     [key_name |-> key.name], ok, item)
    IN  IF ~ok THEN Outcome(<<post>>, <<>>, RequestFailed, rem, nid)
        ELSE Outcome(<<post>>, <<KeyEntry(serviceHash, KeyIdOf(KeyReply(nid, typed)))>>,
                     NoError,
                     [rem EXCEPT !.keys =
                         @ \cup {[svc |-> serviceHash, id |-> Name("kid", nid)]}],
                     nid + 1)

createServiceRelation(rem, nid, sourceHash, relation, item, ok) ==
    LET post == Call("POST", <<"services", sourceHash, "matriz">>,
                     [related_service_hash |-> relation.target_hash], ok, item)
    IN  IF ~ok THEN Outcome(<<post>>, <<>>, RequestFailed, rem, nid)
        ELSE Outcome(<<post>>, <<RelationEntry(sourceHash, relation)>>, NoError,
                     [rem EXCEPT !.relations =
                         @ \cup {[src |-> sourceHash, dst |-> relation.target_hash]}],
                     nid)

(***************************************************************************)
(* rollbackResources' switch: the DELETE path of a ledger entry, or no     *)
(* path when no case matches.                                              *)
(***************************************************************************)
RollbackPath(resource) ==
    CASE resource.Type = "relation" ->
            <<"services", resource.Hash, "matriz", resource.ID>>
      [] resource.Type = "key" ->
            <<"services", resource.Hash, "keys", resource.ID>>
      [] resource.Type = "service" -> <<"services", resource.Hash>>
      [] resource.Type = "service_group" -> <<"service-groups", resource.Hash>>
      [] resource.Type = "politica" -> <<"policy", resource.Hash>>
      [] resource.Type = "evento" -> <<"eventos", resource.Hash>>
      [] OTHER -> NoPath

\* for i := len(resources) - 1; ...: where the sweep starts (1-based)
RollbackStart(resources) == Len(resources)

RollbackItem(i) == Item("rollback", i, 0)

\* what a sweep has done so far
Swept(cs, warns, rem) == [calls |-> cs, warnings |-> warns, remote |-> rem]

\* the sweep issuing a failed DELETE a second time
RECURSIVE rollbackResourcesRetry(_, _, _, _)
rollbackResourcesRetry(resources, i, failing, st) ==
    IF i < 1 THEN st
    ELSE LET path == RollbackPath(resources[i])
             ok == i \notin failing
             del == Call("DELETE", path, NoPayload, ok, RollbackItem(i))
         IN  rollbackResourcesRetry(resources, i - 1, failing,
                 IF path = NoPath THEN st
                 ELSE IF ok
                 THEN Swept(Append(st.calls, del), st.warnings,
                            RemoteDelete(st.remote, path))
                 ELSE Swept(st.calls \o <<del, del>>,
                            Append(st.warnings, [entry |-> i, err |-> RequestFailed]),
                            st.remote))

\* a sweep over resources[stop..i] only: the loop left at entry stop - 1
RECURSIVE rollbackResourcesUntil(_, _, _, _, _)
rollbackResourcesUntil(resources, i, stop, failing, st) ==
    IF i < stop THEN st
    ELSE LET path == RollbackPath(resources[i])
             ok == i \notin failing
             del == Call("DELETE", path, NoPayload, ok, RollbackItem(i))
         IN  rollbackResourcesUntil(resources, i - 1, stop, failing,
                 IF path = NoPath THEN st
                 ELSE Swept(Append(st.calls, del),
                            IF ok THEN st.warnings
                            ELSE Append(st.warnings, [entry |-> i, err |-> RequestFailed]),
                            IF ok THEN RemoteDelete(st.remote, path) ELSE st.remote))

\* the sweep walking the ledger from its first entry up
RECURSIVE rollbackResourcesForward(_, _, _, _)
rollbackResourcesForward(resources, i, failing, st) ==
    IF i < 1 THEN st
    ELSE LET n == Len(resources) + 1 - i
             path == RollbackPath(resources[n])
             ok == n \notin failing
             del == Call("DELETE", path, NoPayload, ok, RollbackItem(n))
         IN  rollbackResourcesForward(resources, i - 1, failing,
                 IF path = NoPath THEN st
                 ELSE Swept(Append(st.calls, del),
                            IF ok THEN st.warnings
                            ELSE Append(st.warnings, [entry |-> n, err |-> RequestFailed]),
                            IF ok THEN RemoteDelete(st.remote, path) ELSE st.remote))

\* rollbackResources' loop from entry i down to the first entry; `failing`
\* are the entries whose DELETE the remote fails.  An entry no case of the
\* switch matches is passed over.
RECURSIVE rollbackResources(_, _, _, _)
rollbackResources(resources, i, failing, st) ==
    IF i < 1 THEN st
    ELSE LET path == RollbackPath(resources[i])
             ok == i \notin failing
             del == Call("DELETE", path, NoPayload, ok, RollbackItem(i))
         IN  rollbackResources(resources, i - 1, failing,
                 IF path = NoPath THEN st
                 ELSE Swept(Append(st.calls, del),
                            IF ok THEN st.warnings
                            ELSE Append(st.warnings, [entry |-> i, err |-> RequestFailed]),
                            IF ok THEN RemoteDelete(st.remote, path) ELSE st.remote))

\* the sets of at most n elements of S
RECURSIVE SubsetsUpTo(_, _)
SubsetsUpTo(S, n) ==
    IF n = 0 THEN {{}}
    ELSE LET smaller == SubsetsUpTo(S, n - 1)
         IN  smaller \cup { A \cup {x} : A \in smaller, x \in S }

\* which DELETEs of a sweep the remote may fail
FailureSets(resources) ==
    SubsetsUpTo({ i \in 1..Len(resources) : RollbackPath(resources[i]) # NoPath },
                MaxDeleteFailures)

\* the deferred function sweeping the ledger as it was when RunE deferred it
DeferredLedgerAtDefer(resources) == <<>>

\* defer func() { ... rollbackResources(apiClient, token, createdResources) }:
\* the closure reads RunE's variable when it runs, that is the ledger as the
\* forward pass left it
DeferredLedger(resources) == resources

\* the new entries put in front of the ledger
PrependEntries(ledger, entries) == entries \o ledger

\* *createdResources = append(*createdResources, ...)
AppendEntries(ledger, entries) == ledger \o entries

\* a total that leaves keys and relations out
CreatedTotalWithoutChildren(resources) ==
    Len(SelectSeq(resources, LAMBDA r : r.Type \notin {"key", "relation"}))

\* log.Infof("Total resources created: %d", len(createdResources))
CreatedTotal(resources) == Len(resources)

\* RunE neither rolling back nor returning after an error
AfterCreateHang(e) == IF e = NoError THEN "forward" ELSE "waiting"

\* the forward pass going on after an error
AfterCreateContinue(e) == "forward"

\* RunE rolling back whatever applyConfiguration returned
AfterCreateAlwaysRollback(e) == "rollback"

\* RunE after applyConfiguration returned e: roll back, or go on
AfterCreate(e) == IF e = NoError THEN "forward" ELSE "rollback"

\* returning the sweep's last error when it had one
ReturnedLastError(e, warns) == IF warns = <<>> THEN e ELSE warns[Len(warns)].err

\* RunE's `return err` after the sweep
ReturnedError(e, warns) == e

RECURSIVE CountChildren(_, _)
CountChildren(config, s) ==
    IF s > Len(config.services) THEN 0
    ELSE Len(config.services[s].keys) + Len(config.services[s].relations)
         + CountChildren(config, s + 1)

\* a total that counts keys and relations too
DryRunTotalWithChildren(config) ==
    Len(config.events) + Len(config.policies) + Len(config.service_groups)
    + Len(config.services) + CountChildren(config, 1)

\* the dry-run branch's total
DryRunTotal(config) ==
    Len(config.events) + Len(config.policies) + Len(config.service_groups)
    + Len(config.services)

(***************************************************************************)
(* State.                                                                  *)
(***************************************************************************)
(***************************************************************************)
(* HTTPClient.request (pkg/client/client.go): what the transport makes of  *)
(* one HTTP exchange.  A body is a sequence of lexemes: the brackets and   *)
(* braces, a blank (one whitespace byte), and "m", one member "k":v of an  *)
(* object.                                                                 *)
(***************************************************************************)
Lexemes == {" ", "[", "]", "{", "}", "m"}
Bodies == SeqsUpTo(Lexemes, MaxBodyLen)
Statuses == {199, 200, 204, 299, 300, 404, 500}

\* the JSON values encoding/json decodes from these bodies
JInvalid == [t |-> "invalid", elems |-> <<>>]
JObject(members) == [t |-> "object", elems |-> members]
JArray(elems) == [t |-> "array", elems |-> elems]

\* the decoder's scanner: whitespace around the structural bytes is passed over
Scan(body) == SelectSeq(body, LAMBDA c : c # " ")

\* the value of a scanned body, JInvalid for what is no JSON text
RECURSIVE Value(_)
Value(toks) ==
    IF toks = <<"{", "}">> THEN JObject(<<>>)
    ELSE IF toks = <<"{", "m", "}">> THEN JObject(<<"m">>)
    ELSE IF Len(toks) >= 2 /\ toks[1] = "[" /\ toks[Len(toks)] = "]"
         THEN LET inner == SubSeq(toks, 2, Len(toks) - 1)
              IN  IF inner = <<>> THEN JArray(<<>>)
                  ELSE LET v == Value(inner)
                       IN  IF v = JInvalid THEN JInvalid ELSE JArray(<<v>>)
         ELSE JInvalid

\* json.Unmarshal(responseBody, &arrayResult), arrayResult a []interface{}
UnmarshalArray(body) ==
    LET v == Value(Scan(body))
    IN  IF v.t = "array" THEN [ok |-> TRUE, v |-> v.elems]
        ELSE [ok |-> FALSE, v |-> <<>>]

\* json.Unmarshal(responseBody, &result), result a map[string]interface{}
UnmarshalObject(body) ==
    LET v == Value(Scan(body))
    IN  IF v.t = "object" THEN [ok |-> TRUE, v |-> v.elems]
        ELSE [ok |-> FALSE, v |-> <<>>]

\* the map request returns: nil, the object decoded, or the wrapper of an array
NilMap == [nil |-> TRUE, members |-> <<>>, is_array |-> FALSE, array_data |-> <<>>]
ObjectMap(members) ==
    [nil |-> FALSE, members |-> members, is_array |-> FALSE, array_data |-> <<>>]
WrappedArray(elems) ==
    [nil |-> FALSE, members |-> <<>>, is_array |-> TRUE, array_data |-> elems]

NoTransportError == [kind |-> "none", status |-> 0, body |-> <<>>]
TransportError(kind, status, body) == [kind |-> kind, status |-> status, body |-> body]
ParseError == TransportError("failed to parse response", 0, <<>>)
Reply(result, e) == [result |-> result, err |-> e]

\* what arrives: nothing (Do failed), a status with a body that could not be
\* read, or a status and a body
Response(sent, read, status, body) ==
    [sent |-> sent, read |-> read, status |-> status, body |-> body]
Responses ==
    {Response(FALSE, FALSE, 0, <<>>)}
        \cup { Response(TRUE, FALSE, st, <<>>) : st \in {200, 500} }
        \cup { Response(TRUE, TRUE, st, b) : st \in Statuses, b \in Bodies }

request(resp) ==
    IF ~resp.sent THEN Reply(NilMap, TransportError("request failed", 0, <<>>))
    ELSE IF ~resp.read
    THEN Reply(NilMap, TransportError("failed to read response", 0, <<>>))
    ELSE IF resp.status < 200 \/ resp.status >= 300
    THEN Reply(NilMap, TransportError("request failed with status",
                                      resp.status, resp.body))
    ELSE IF Len(resp.body) = 0 THEN Reply(NilMap, NoTransportError)
    ELSE IF resp.body[1] = "["
    THEN LET a == UnmarshalArray(resp.body)
         IN  IF a.ok THEN Reply(WrappedArray(a.v), NoTransportError)
             ELSE Reply(NilMap, ParseError)
    ELSE LET o == UnmarshalObject(resp.body)
         IN  IF o.ok THEN Reply(ObjectMap(o.v), NoTransportError)
             ELSE Reply(NilMap, ParseError)

VARIABLES
    configFile,        \* what os.ReadFile and yaml.Unmarshal make of args[0]
    doc,               \* certfixConfig, read-only after the parse
    dryRun,            \* --dry-run
    skipExisting,      \* --skip-existing
    tokenFile,         \* ~/.certfix/token.json
    now,               \* time.Now()
    token,             \* RunE's token
    getTokenCalls,     \* how often auth.GetToken was called
    pc,                \* where RunE stands
    cursor,            \* next item of the forward pass
    createdResources,  \* the ledger
    err,               \* RunE's err
    sweeps,            \* how often rollbackResources was entered
    warnings,          \* the warnings rollbackResources logged
    calls,             \* every Transport call issued, in order
    remote,            \* the resources the remote holds
    remote0,           \* ... and held when the command started
    nextId,            \* the remote's identifier counter
    stringIds,         \* whether the remote's replies carry identifiers as JSON strings
    total,             \* the count the command reports
    result,            \* what RunE returned
    exchange,          \* one HTTP exchange of the transport: what arrived, what request returned
    session            \* the credential store's history: the operations called on it

vars == <<configFile, doc, dryRun, skipExisting, tokenFile, now, token, getTokenCalls, pc,
          cursor, createdResources, err, sweeps, warnings, calls, remote,
          remote0, nextId, stringIds, total, result, exchange, session>>

\* all but the token file, the clock, the exchange and the session
applyVars == <<configFile, doc, dryRun, skipExisting, token, getTokenCalls, pc,
               cursor, createdResources, err, sweeps, warnings, calls, remote,
               remote0, nextId, stringIds, total, result>>

\* no exchange under observation; one that arrived; one request has returned from
NoExchange == [phase |-> "none", resp |-> Response(FALSE, FALSE, 0, <<>>),
               reply |-> Reply(NilMap, NoTransportError)]
Arrived(resp) == [phase |-> "arrived", resp |-> resp,
                  reply |-> Reply(NilMap, NoTransportError)]
Handled(resp, reply) == [phase |-> "returned", resp |-> resp, reply |-> reply]

\* the session before any operation: n operations were called, op the last
\* of them and e what it returned; changed is the last operation that changed
\* the store, stored and expiry the token of the last StoreToken that
\* returned nil and when it expires; got and at are what the last GetToken
\* returned and when
NoSession == [n |-> 0, op |-> "none", e |-> "", changed |-> "none",
              stored |-> "", expiry |-> 0,
              got |-> [ok |-> FALSE, token |-> "", err |-> ""], at |-> 0]

NoResult == [returned |-> FALSE, err |-> NoError]
Returned(e) == [returned |-> TRUE, err |-> e]

EmptyRemote ==
    [events |-> {}, policies |-> <<>>, groups |-> {}, services |-> {},
     keys |-> {}, relations |-> {}]

\* the services an earlier run may have left at the remote
PreExisting == {{}} \cup { {Name("svc", i)} : i \in 1..MaxServices }

\* the remote after an earlier apply of the four lists of config
EarlierApply(config) ==
    [events |-> { config.events[i].name : i \in 1..Len(config.events) },
     policies |-> [i \in 1..Len(config.policies) |->
                     [name |-> config.policies[i].name, id |-> Name("old", i)]],
     groups |-> { [name |-> config.service_groups[i].name, id |-> Name("old", i)] :
                    i \in 1..Len(config.service_groups) },
     services |-> { config.services[i].hash : i \in 1..Len(config.services) },
     keys |-> {},
     relations |-> {}]

\* some step of an apply of config reads an identifier out of a reply: a key
\* is created, or a group or policy the name of which can match is looked up
ReadsIdentifiers(config) ==
    \E k \in 1..Len(config.services) :
        \/ config.services[k].keys # <<>>
        \/ config.services[k].group_name \notin {"", DanglingGroup}
        \/ config.services[k].policy_name \notin {"", DanglingPolicy}

\* the file named on the command line
ConfigFiles == {"valid", "unreadable", "malformed"}

\* a reader that takes any file
ReadConfigLenient(file) == NoError

\* os.ReadFile, then yaml.Unmarshal: the error RunE returns, or nil
ReadConfig(file) ==
    IF file = "unreadable" THEN Error("parse", "failed to read config file")
    ELSE IF file = "malformed" THEN Error("parse", "failed to parse YAML")
    ELSE NoError

\* a panic leaving RunE: nothing is returned
Panicked == [returned |-> FALSE, err |-> Error("panic", "re-raised")]

Init ==
    /\ configFile \in ConfigFiles
    /\ doc \in Documents
    /\ dryRun \in BOOLEAN
    /\ skipExisting \in BOOLEAN
    /\ tokenFile \in {NoFile, TokenData("tok", 1)}
    /\ now \in {0, 2}
    /\ token = ""
    /\ getTokenCalls = 0
    /\ pc = "start"
    /\ cursor = 1
    /\ createdResources = <<>>
    /\ err = NoError
    /\ sweeps = 0
    /\ warnings = <<>>
    /\ calls = <<>>
    /\ remote \in { [EmptyRemote EXCEPT !.services = pre] : pre \in PreExisting }
                  \cup {EarlierApply(doc)}
    /\ remote0 = remote
    /\ nextId = 1
    /\ stringIds \in BOOLEAN
    /\ total = 0
    /\ result = NoResult
    /\ exchange = NoExchange
    /\ session = NoSession
    \* inputs no step of the run reads are not varied
    /\ tokenFile = NoFile => now = 0
    /\ configFile # "valid" => doc = CertfixConfig(0, 0, 0, <<>>)
    /\ (configFile # "valid" \/ dryRun \/ ~GetToken(tokenFile, now).ok) =>
          (~skipExisting /\ stringIds /\ remote = EmptyRemote)
    /\ remote = EmptyRemote => ~skipExisting
    /\ ~ReadsIdentifiers(doc) => stringIds
    /\ \A h \in remote.services :
          \E k \in 1..Len(doc.services) : doc.services[k].hash = h

(***************************************************************************)
(* The environment's choices: what the remote may answer.                  *)
(***************************************************************************)
\* The outcomes of createService's calls.  GET /services/<hash> and
\* GET /service-groups/name/<n> answer 2xx only for what the remote holds,
\* POST /services only for a hash it does not hold; a call that is not
\* reached has no outcome (its flag stays TRUE).
ServiceChoices(rem, service) ==
    { c \in [exists : BOOLEAN, groupOk : BOOLEAN, policyOk : BOOLEAN,
             postOk : BOOLEAN] :
        LET reachedGroup == ~c.exists /\ service.group_name # ""
            reachedPolicy == /\ ~c.exists /\ service.policy_name # ""
                             /\ (reachedGroup => c.groupOk)
            reachedPost == /\ ~c.exists
                           /\ (reachedGroup => c.groupOk)
                           /\ (reachedPolicy => c.policyOk)
        IN  /\ c.exists => service.hash \in rem.services
            /\ IF reachedGroup
               THEN c.groupOk => HasGroup(rem, service.group_name)
               ELSE c.groupOk
            /\ ~reachedPolicy => c.policyOk
            /\ IF reachedPost
               THEN c.postOk => service.hash \notin rem.services
               ELSE c.postOk }

\* The outcomes of a creation POST: the remote keeps names and hashes
\* unique, so it answers 2xx only for one it does not hold.
PostChoices(held) == IF held THEN {FALSE} ELSE BOOLEAN

HasEvent(rem, name) == name \in rem.events
HasPolicy(rem, name) == \E k \in 1..Len(rem.policies) : rem.policies[k].name = name
HasRelation(rem, src, dst) == [src |-> src, dst |-> dst] \in rem.relations

(***************************************************************************)
(* applyCmd.RunE                                                           *)
(***************************************************************************)
Plan == applyConfiguration(doc)
AtItem(kind) == pc = "forward" /\ cursor <= Len(Plan) /\ Plan[cursor].kind = kind

\* --dry-run: print the plan and the total, return nil
\* the file cannot be read or parsed: return the error
ParseFailed ==
    /\ pc = "start" /\ ReadConfig(configFile) # NoError
    /\ err' = ReadConfig(configFile)
    /\ result' = Returned(err')
    /\ pc' = "done"
    /\ UNCHANGED <<exchange, session, configFile, doc, dryRun, skipExisting, tokenFile, now, token,
                   getTokenCalls, cursor, createdResources, sweeps, warnings,
                   calls, remote, remote0, nextId, stringIds, total>>

DryRunPlan ==
    /\ pc = "start" /\ ReadConfig(configFile) = NoError /\ dryRun
    /\ total' = DryRunTotal(doc)
    /\ result' = Returned(NoError)
    /\ pc' = "done"
    /\ UNCHANGED <<exchange, session, configFile, doc, dryRun, skipExisting, tokenFile, now, token, getTokenCalls,
                   cursor, createdResources, err, sweeps, warnings, calls,
                   remote, remote0, nextId, stringIds>>

\* token, err := auth.GetToken(); if err != nil { return ... }
Authenticate ==
    /\ pc = "start" /\ ReadConfig(configFile) = NoError /\ ~dryRun
    /\ getTokenCalls' = getTokenCalls + 1
    /\ LET r == GetToken(tokenFile, now)
       IN  IF r.ok
           THEN /\ token' = r.token
                /\ pc' = "forward"
                /\ UNCHANGED <<err, result>>
           ELSE /\ err' = Error("unauthenticated", r.err)
                /\ result' = Returned(err')
                /\ pc' = "done"
                /\ UNCHANGED token
    /\ UNCHANGED <<exchange, session, configFile, doc, dryRun, skipExisting, tokenFile, now, cursor,
                   createdResources, sweeps, warnings, calls, remote, remote0,
                   nextId, stringIds, total>>

\* One create call of applyConfiguration has returned `out`; on an error
\* applyConfiguration returns it wrapped and RunE turns to the rollback.
Forward(item, out) ==
    LET e == Wrap(out.err, item)
        next == AfterCreate(e)
    IN  /\ calls' = calls \o out.calls
        /\ createdResources' = AppendEntries(createdResources, out.entries)
        /\ remote' = out.remote
        /\ nextId' = out.nextId
        /\ err' = IF e = NoError THEN err ELSE e
        /\ pc' = next
        /\ cursor' = IF next = "forward" THEN cursor + 1 ELSE cursor
        /\ UNCHANGED <<exchange, session, configFile, doc, dryRun, skipExisting, tokenFile, now, token,
                       getTokenCalls, sweeps, warnings, remote0, stringIds, total,
                       result>>

CreateEvent ==
    /\ AtItem("event")
    /\ \E ok \in PostChoices(HasEvent(remote, doc.events[Plan[cursor].i].name)) :
          Forward(Plan[cursor],
                  createEvent(remote, nextId, doc.events[Plan[cursor].i],
                              Plan[cursor], ok))

CreatePolicy ==
    /\ AtItem("policy")
    /\ \E ok \in PostChoices(HasPolicy(remote, doc.policies[Plan[cursor].i].name)) :
          Forward(Plan[cursor],
                  createPolicy(remote, nextId, doc.policies[Plan[cursor].i],
                               Plan[cursor], ok))

CreateServiceGroup ==
    /\ AtItem("service_group")
    /\ \E ok \in PostChoices(HasGroup(remote,
                                      doc.service_groups[Plan[cursor].i].name)) :
          Forward(Plan[cursor],
                  createServiceGroup(remote, nextId,
                                     doc.service_groups[Plan[cursor].i],
                                     Plan[cursor], ok))

CreateService ==
    /\ AtItem("service")
    /\ \E c \in ServiceChoices(remote, doc.services[Plan[cursor].i]) :
          Forward(Plan[cursor],
                  createService(remote, nextId, doc.services[Plan[cursor].i],
                                Plan[cursor], skipExisting, c, stringIds))

CreateServiceKey ==
    /\ AtItem("key")
    /\ \E ok \in BOOLEAN :
          LET service == doc.services[Plan[cursor].i]
          IN  Forward(Plan[cursor],
                      createServiceKey(remote, nextId, service.hash,
                                       service.keys[Plan[cursor].j],
                                       Plan[cursor], ok, stringIds))

CreateServiceRelation ==
    /\ AtItem("relation")
    /\ LET service == doc.services[Plan[cursor].i]
           relation == service.relations[Plan[cursor].j]
       IN  \E ok \in PostChoices(HasRelation(remote, service.hash,
                                              relation.target_hash)) :
               Forward(Plan[cursor],
                      createServiceRelation(remote, nextId, service.hash,
                                            service.relations[Plan[cursor].j],
                                            Plan[cursor], ok))

\* applyConfiguration returned nil: report the total, return nil
ApplySucceeded ==
    /\ pc = "forward" /\ cursor > Len(Plan)
    /\ total' = CreatedTotal(createdResources)
    /\ result' = Returned(err)
    /\ pc' = "done"
    /\ UNCHANGED <<exchange, session, configFile, doc, dryRun, skipExisting, tokenFile, now, token, getTokenCalls,
                   cursor, createdResources, err, sweeps, warnings, calls,
                   remote, remote0, nextId, stringIds>>

(***************************************************************************)
(* RunE's error path: rollbackResources(apiClient, token,                  *)
(* createdResources), then return err.                                     *)
(***************************************************************************)
Rollback ==
    /\ pc = "rollback"
    /\ \E failing \in FailureSets(createdResources) :
          LET st == rollbackResources(createdResources,
                                      RollbackStart(createdResources), failing,
                                      Swept(calls, warnings, remote))
          IN  /\ calls' = st.calls
              /\ warnings' = st.warnings
              /\ remote' = st.remote
              /\ result' = Returned(ReturnedError(err, st.warnings))
    /\ sweeps' = sweeps + 1
    /\ pc' = "done"
    /\ UNCHANGED <<exchange, session, configFile, doc, dryRun, skipExisting, tokenFile, now, token, getTokenCalls,
                   cursor, createdResources, err, remote0, nextId, stringIds,
                   total>>

(***************************************************************************)
(* A panic in the forward pass: RunE's deferred function recovers it,      *)
(* sweeps the ledger and panics again.                                     *)
(***************************************************************************)
Panic ==
    /\ pc = "forward"
    /\ LET ledger == DeferredLedger(createdResources)
       IN  \E failing \in FailureSets(ledger) :
              LET st == rollbackResources(ledger, RollbackStart(ledger), failing,
                                          Swept(calls, warnings, remote))
              IN  /\ calls' = st.calls
                  /\ warnings' = st.warnings
                  /\ remote' = st.remote
    /\ sweeps' = sweeps + 1
    /\ result' = Panicked
    /\ pc' = "panicked"
    /\ UNCHANGED <<exchange, session, configFile, doc, dryRun, skipExisting, tokenFile, now, token,
                   getTokenCalls, cursor, createdResources, err, remote0, nextId,
                   stringIds, total>>

(***************************************************************************)
(* A panic in rollbackResources while RunE's error path runs it: the sweep *)
(* has gone from the last entry down to entry stop (past the last entry:   *)
(* it has not issued a DELETE yet), the deferred function                  *)
(* recovers, sweeps the whole ledger and panics again.  The first sweep's  *)
(* DELETEs are answered 2xx; the second sweep's DELETE of what the first   *)
(* deleted is answered 404.                                                *)
(***************************************************************************)
DeletedBy(resources, stop) ==
    { n \in stop..Len(resources) : RollbackPath(resources[n]) # NoPath }

RollbackPanic ==
    /\ pc = "rollback"
    /\ createdResources # <<>>
    /\ \E stop \in 1..(Len(createdResources) + 1) :
          LET first == rollbackResourcesUntil(createdResources,
                                              RollbackStart(createdResources), stop,
                                              {}, Swept(calls, warnings, remote))
              ledger == DeferredLedger(createdResources)
              st == rollbackResources(ledger, RollbackStart(ledger),
                                      DeletedBy(createdResources, stop), first)
          IN  /\ calls' = st.calls
              /\ warnings' = st.warnings
              /\ remote' = st.remote
    /\ sweeps' = sweeps + 2
    /\ result' = Panicked
    /\ pc' = "panicked"
    /\ UNCHANGED <<exchange, session, configFile, doc, dryRun, skipExisting, tokenFile, now, token,
                   getTokenCalls, cursor, createdResources, err, remote0, nextId,
                   stringIds, total>>

Next ==
    \/ ParseFailed
    \/ DryRunPlan
    \/ Authenticate
    \/ CreateEvent
    \/ CreatePolicy
    \/ CreateServiceGroup
    \/ CreateService
    \/ CreateServiceKey
    \/ CreateServiceRelation
    \/ ApplySucceeded
    \/ Rollback

Spec == Init /\ [][Next]_vars

\* ... and with panics
NextFault == Next \/ Panic
SpecFault == Init /\ [][NextFault]_vars

\* ... with panics in the sweep of the error path too
NextSweepFault == NextFault \/ RollbackPanic
SpecSweepFault == Init /\ [][NextSweepFault]_vars

\* every Transport call returns, so RunE goes on while it has a step to take
SpecLive == Spec /\ WF_vars(Next)

(***************************************************************************)
(* The transport alone: one exchange arrives, request returns.             *)
(***************************************************************************)
ApplyIdle ==
    /\ configFile = "valid"
    /\ doc = CertfixConfig(0, 0, 0, <<>>)
    /\ dryRun = FALSE
    /\ skipExisting = FALSE
    /\ token = ""
    /\ getTokenCalls = 0
    /\ pc = "idle"
    /\ cursor = 1
    /\ createdResources = <<>>
    /\ err = NoError
    /\ sweeps = 0
    /\ warnings = <<>>
    /\ calls = <<>>
    /\ remote = EmptyRemote
    /\ remote0 = EmptyRemote
    /\ nextId = 1
    /\ stringIds = TRUE
    /\ total = 0
    /\ result = NoResult

InitTransport ==
    /\ ApplyIdle
    /\ tokenFile = NoFile
    /\ now = 0
    /\ session = NoSession
    /\ exchange \in { Arrived(resp) : resp \in Responses }

Request ==
    /\ exchange.phase = "arrived"
    /\ exchange' = Handled(exchange.resp, request(exchange.resp))
    /\ UNCHANGED <<applyVars, tokenFile, now, session>>

NextTransport == Request
SpecTransport == InitTransport /\ [][NextTransport]_vars

(***************************************************************************)
(* The credential store alone: StoreToken, Logout and GetToken called in   *)
(* any order on ~/.certfix/token.json while the clock runs.                *)
(***************************************************************************)
InitAuth ==
    /\ ApplyIdle
    /\ tokenFile = NoFile
    /\ now = 0
    /\ session = NoSession
    /\ exchange = NoExchange

CallStoreToken ==
    /\ session.n < MaxOps
    /\ \E jwt \in JWTs, fault \in BOOLEAN :
          LET r == StoreToken(tokenFile, jwt, now, fault)
              claims == ParseUnverified(jwt)
          IN  /\ tokenFile' = r.file
              /\ session' = IF r.err = ""
                             THEN [session EXCEPT !.n = @ + 1, !.op = "StoreToken",
                                       !.e = "", !.changed = "StoreToken",
                                       !.stored = jwt,
                                       !.expiry = IF claims.hasExp THEN claims.exp
                                                  ELSE now + DefaultExpiration]
                             ELSE [session EXCEPT !.n = @ + 1, !.op = "StoreToken",
                                       !.e = r.err]
    /\ UNCHANGED <<applyVars, now, exchange>>

CallLogout ==
    /\ session.n < MaxOps
    /\ \E fault \in BOOLEAN :
          LET r == Logout(tokenFile, fault)
          IN  /\ tokenFile' = r.file
              /\ session' = [session EXCEPT !.n = @ + 1, !.op = "Logout",
                                 !.e = r.err,
                                 !.changed = IF tokenFile.exists /\ r.err = ""
                                             THEN "Logout" ELSE @]
    /\ UNCHANGED <<applyVars, now, exchange>>

CallGetToken ==
    /\ session.n < MaxOps
    /\ session' = [session EXCEPT !.n = @ + 1, !.op = "GetToken",
                       !.e = GetToken(tokenFile, now).err,
                       !.got = GetToken(tokenFile, now), !.at = now]
    /\ UNCHANGED <<applyVars, tokenFile, now, exchange>>

ClockTick ==
    /\ now < MaxClock
    /\ now' = now + 1
    /\ UNCHANGED <<applyVars, tokenFile, exchange, session>>

NextAuth ==
    \/ CallStoreToken
    \/ CallLogout
    \/ CallGetToken
    \/ ClockTick

SpecAuth == InitAuth /\ [][NextAuth]_vars

(***************************************************************************)
(* Properties.                                                             *)
(***************************************************************************)
Deletes == SelectSeq(calls, LAMBDA c : c.method = "DELETE")
Posts == SelectSeq(calls, LAMBDA c : c.method = "POST")

\* the file was read and parsed into doc
Parsed == ReadConfig(configFile) = NoError
\* the command is over and its forward pass had failed
FailedApply == pc = "done" /\ sweeps > 0
\* the command is over and its forward pass went through
SuccessfulApply ==
    pc = "done" /\ ~dryRun /\ getTokenCalls = 1 /\ result = Returned(NoError)

IsServicePost(c) == c.method = "POST" /\ c.path = <<"services">>
\* a creation call, or one of the two name lookups, that returned an error
IsFailedStep(c) ==
    /\ ~c.ok
    /\ \/ c.method = "POST"
       \/ c.method = "GET" /\ c.path[1] \in {"service-groups", "politicas"}

\* C1: when the forward pass created r1..rn and then failed, the sweep issues
\* exactly n DELETE calls, the k-th of them for ledger entry n+1-k.
C1_RollbackSymmetry ==
    FailedApply =>
        /\ Len(Deletes) = Len(createdResources)
        /\ \A k \in 1..Len(Deletes) :
              Deletes[k].item.i = Len(createdResources) + 1 - k

\* C2: when the forward pass failed and no DELETE of the sweep failed, the
\* remote holds exactly what it held before the command.
C2_AllOrNothing ==
    (FailedApply /\ warnings = <<>>) => remote = remote0

\* C3: the creation calls of a successful apply come phase by phase (events,
\* policies, service groups, services, keys, relations), in document order
\* inside a phase, each carrying its item of the document.
PhaseOfPost(c) ==
    CASE c.path = <<"events">> -> 1
      [] c.path = <<"politicas">> -> 2
      [] c.path = <<"service-groups">> -> 3
      [] c.path = <<"services">> -> 4
      [] Len(c.path) = 3 /\ c.path[3] = "keys" -> 5
      [] Len(c.path) = 3 /\ c.path[3] = "matriz" -> 6
      [] OTHER -> 0

PostCarriesItem(c) ==
    CASE PhaseOfPost(c) = 1 -> c.payload.name = doc.events[c.item.i].name
      [] PhaseOfPost(c) = 2 -> c.payload.name = doc.policies[c.item.i].name
      [] PhaseOfPost(c) = 3 -> c.payload.name = doc.service_groups[c.item.i].name
      [] PhaseOfPost(c) = 4 -> c.payload.service_hash = doc.services[c.item.i].hash
      [] PhaseOfPost(c) = 5 ->
            /\ c.path[2] = doc.services[c.item.i].hash
            /\ c.payload.key_name = doc.services[c.item.i].keys[c.item.j].name
      [] PhaseOfPost(c) = 6 ->
            /\ c.path[2] = doc.services[c.item.i].hash
            /\ c.payload.related_service_hash =
                  doc.services[c.item.i].relations[c.item.j].target_hash
      [] OTHER -> FALSE

PostBefore(a, b) ==
    \/ PhaseOfPost(a) < PhaseOfPost(b)
    \/ /\ PhaseOfPost(a) = PhaseOfPost(b)
       /\ \/ a.item.i < b.item.i
          \/ a.item.i = b.item.i /\ a.item.j < b.item.j

C4_ShortCircuit ==
    /\ \A k \in 1..Len(calls) :
          IsFailedStep(calls[k]) =>
              /\ err # NoError /\ err.item = calls[k].item
              /\ \A m \in (k + 1)..Len(calls) : calls[m].method = "DELETE"
    /\ err.kind \in {"transport", "reference", "conflict"} =>
          LET plan == Plan
              reached == { plan[n] : n \in 1..cursor }
          IN  /\ pc \in {"rollback", "done"}
              /\ pc = "done" => sweeps = 1
              /\ plan[cursor] = err.item
              /\ \A k \in 1..Len(calls) :
                    calls[k].method # "DELETE" => calls[k].item \in reached

C4_Witness ==
    /\ pc = "done"
    /\ cursor < Len(Plan)
    /\ \E k \in 1..Len(calls) : IsFailedStep(calls[k]) /\ k < Len(calls)

\* C5: when a DELETE of the sweep fails, a DELETE is still issued for every
\* ledger entry below the one it was for.
C5_SweepContinues ==
    FailedApply =>
        \A k \in 1..Len(Deletes) :
            ~Deletes[k].ok =>
                \A n \in 1..(Deletes[k].item.i - 1) :
                    \E m \in 1..Len(Deletes) : Deletes[m].item.i = n

\* C6: a failed apply returns the error that stopped the forward pass (the
\* error of the item the pass stands at), whatever the sweep's DELETEs did;
\* no error of the sweep is returned.
C6_OriginalError ==
    FailedApply =>
        /\ result = Returned(err)
        /\ err.kind \in {"transport", "reference", "conflict"}
        /\ err.item = Plan[cursor]
        /\ \A w \in 1..Len(warnings) : result.err # warnings[w].err

C6_Witness == FailedApply /\ warnings # <<>> /\ Len(Deletes) >= 2

\* C7: a dry run issues no Transport call, never calls GetToken, builds no
\* ledger and, the document read, returns nil and reports
\* len(events)+len(policies)+len(service_groups)+len(services).
C7_DryRun ==
    dryRun =>
        /\ calls = <<>> /\ getTokenCalls = 0 /\ createdResources = <<>>
        /\ sweeps = 0 /\ remote = remote0
        /\ (pc = "done" /\ Parsed) =>
              /\ result = Returned(NoError)
              /\ total = Len(doc.events) + Len(doc.policies)
                         + Len(doc.service_groups) + Len(doc.services)

C7_Witness ==
    /\ dryRun /\ pc = "done" /\ ~tokenFile.exists
    /\ Len(doc.events) > 0 /\ Len(doc.policies) > 0 /\ Len(doc.service_groups) > 0
    /\ \E k \in 1..Len(doc.services) : Len(doc.services[k].keys) > 0

\* C8: GetToken is called at most once, before the forward pass; with the
\* token file missing or the token expired a live apply of a document that
\* was read returns the authentication error with no Transport call, no
\* ledger entry and no sweep.
Unauthenticated == ~tokenFile.exists \/ now > tokenFile.ExpiresAt

C8_AuthOnce ==
    /\ getTokenCalls <= 1
    /\ pc \in {"forward", "rollback"} => getTokenCalls = 1
    /\ Unauthenticated =>
          /\ calls = <<>> /\ createdResources = <<>> /\ sweeps = 0
          /\ pc \in {"start", "done"}
          /\ (pc = "done" /\ ~dryRun /\ Parsed) =>
                (getTokenCalls = 1 /\ result.err.kind = "unauthenticated")

C8_Witness ==
    /\ pc = "done" /\ ~dryRun /\ tokenFile.exists /\ now > tokenFile.ExpiresAt
    /\ Len(Plan) > 0 /\ result.err.kind = "unauthenticated"

\* C9: a POST /services for a service with group_name G, issued after this
\* apply created the group G, carries G's remote identifier in
\* service_group_id (stated while the remote still holds G).
C9_GroupIdInPayload ==
    \A k \in 1..Len(calls) :
        LET G == doc.services[calls[k].item.i].group_name
        IN  ( /\ IsServicePost(calls[k])
              /\ G # ""
              /\ HasGroup(remote, G)
              /\ \E m \in 1..(k - 1) :
                    /\ calls[m].method = "POST" /\ calls[m].ok
                    /\ calls[m].path = <<"service-groups">>
                    /\ calls[m].payload.name = G )
            => calls[k].payload.service_group_id = Str(RemoteGroupId(remote, G))

\* C10: no POST /services is issued for a service whose policy_name matches
\* no policy of the remote: createService returns an error instead.
C10_DanglingPolicyIsError ==
    \A k \in 1..Len(calls) :
        IsServicePost(calls[k]) =>
            doc.services[calls[k].item.i].policy_name # DanglingPolicy

OkPosts == SelectSeq(calls, LAMBDA c : c.method = "POST" /\ c.ok)
IsExistsCheck(c) == c.method = "GET" /\ Len(c.path) = 2 /\ c.path[1] = "services"

\* the name or hash a creation call is for, and the kind of what it creates
PostTarget(c) ==
    CASE PhaseOfPost(c) \in {1, 2, 3} -> c.payload.name
      [] PhaseOfPost(c) = 4 -> c.payload.service_hash
      [] OTHER -> c.path[2]
PostType(c) ==
    CASE PhaseOfPost(c) = 1 -> "event"
      [] PhaseOfPost(c) = 2 -> "policy"
      [] PhaseOfPost(c) = 3 -> "service_group"
      [] PhaseOfPost(c) = 4 -> "service"
      [] PhaseOfPost(c) = 5 -> "key"
      [] OTHER -> "relation"

\* C11: with skip-existing, a service the existence check finds gets no other
\* call (no POST /services) and no ledger entry, is not what the apply fails
\* at, and the forward pass has moved past it.
C11_SkipExisting ==
    skipExisting =>
        \A k \in 1..Len(calls) :
            (IsExistsCheck(calls[k]) /\ calls[k].ok) =>
                /\ \A m \in 1..Len(calls) : m # k => calls[m].item # calls[k].item
                /\ \A n \in 1..Len(createdResources) :
                      ~ /\ createdResources[n].Type = "service"
                        /\ createdResources[n].Hash = calls[k].path[2]
                /\ err.item # calls[k].item
                /\ \E n \in 1..(cursor - 1) : Plan[n] = calls[k].item

C11_Witness ==
    /\ skipExisting /\ SuccessfulApply
    /\ \E k, m \in 1..Len(calls) :
          /\ k < m
          /\ IsExistsCheck(calls[k]) /\ calls[k].ok
          /\ IsServicePost(calls[m]) /\ calls[m].ok

\* C12: without skip-existing, an apply that failed on a service the
\* existence check found issued no POST for that service, and its sweep
\* issued a DELETE for every ledger entry.
C12_ConflictRollsBack ==
    (FailedApply /\ err.kind = "conflict") =>
        /\ \A k \in 1..Len(calls) :
              calls[k].item = err.item => calls[k].method # "POST"
        /\ \A n \in 1..Len(createdResources) :
              \E m \in 1..Len(Deletes) : Deletes[m].item.i = n

\* C13: whatever the remote held when the command started it still holds,
\* and every DELETE a sweep is about to issue addresses something the remote
\* holds now and did not hold then (something this run created).
Contains(rem, rem0) ==
    /\ rem0.events \subseteq rem.events
    /\ rem0.groups \subseteq rem.groups
    /\ rem0.services \subseteq rem.services
    /\ rem0.keys \subseteq rem.keys
    /\ rem0.relations \subseteq rem.relations
    /\ \A k \in 1..Len(rem0.policies) :
          \E m \in 1..Len(rem.policies) : rem.policies[m] = rem0.policies[k]

\* the path addresses something rem holds
Addresses(rem, path) == RemoteDelete(rem, path) # rem

C13_RollbackFrame ==
    /\ Contains(remote, remote0)
    /\ pc = "rollback" =>
          \A n \in 1..Len(createdResources) :
              LET path == RollbackPath(createdResources[n])
              IN  path # NoPath =>
                      (Addresses(remote, path) /\ ~Addresses(remote0, path))

\* C14: with skip-existing, no creation call is issued for an event, policy,
\* service group or service the remote already held when the command started.
HeldAtStart(c) ==
    CASE PhaseOfPost(c) = 1 -> HasEvent(remote0, PostTarget(c))
      [] PhaseOfPost(c) = 2 -> HasPolicy(remote0, PostTarget(c))
      [] PhaseOfPost(c) = 3 -> HasGroup(remote0, PostTarget(c))
      [] PhaseOfPost(c) = 4 -> PostTarget(c) \in remote0.services
      [] OTHER -> FALSE

C14_SkipEveryKind ==
    skipExisting =>
        \A k \in 1..Len(calls) : calls[k].method = "POST" => ~HeldAtStart(calls[k])

\* C15: at every point the ledger has one entry per successful creation call,
\* in the order of the calls, each of the kind and for the name or hash of
\* its call; failed calls and skipped services have none.
C15_LedgerAccounting ==
    LET created == OkPosts
    IN  /\ Len(createdResources) = Len(created)
        /\ \A n \in 1..Len(createdResources) :
              n <= Len(created) =>
                  /\ createdResources[n].Type = PostType(created[n])
                  /\ createdResources[n].Hash = PostTarget(created[n])

C15_Witness ==
    /\ pc = "rollback"
    /\ Len(createdResources) >= 2
    /\ \E k \in 1..Len(calls) : IsExistsCheck(calls[k]) /\ calls[k].ok
    /\ \E k \in 1..Len(calls) : calls[k].method = "POST" /\ ~calls[k].ok

\* C16: in a sweep the DELETE of a key or relation comes before the DELETE of
\* the service of the same hash, and the DELETE of a service before the
\* DELETE of any service group, policy or event.
\* the ledger entries of the DELETEs issued, in the order of the DELETEs
DeletedEntries ==
    LET dels == Deletes
    IN  [k \in 1..Len(dels) |-> createdResources[dels[k].item.i]]

C16_DependentsFirst ==
    LET deleted == DeletedEntries
    IN  \A m, n \in 1..Len(deleted) :
            /\ ( /\ deleted[m].Type \in {"key", "relation"}
                 /\ deleted[n].Type = "service"
                 /\ deleted[m].Hash = deleted[n].Hash ) => m < n
            /\ ( /\ deleted[m].Type = "service"
                 /\ deleted[n].Type \in {"service_group", "policy", "event"} )
                   => m < n

C16_Witness ==
    /\ FailedApply
    /\ \E k, s, g \in 1..Len(DeletedEntries) :
          /\ DeletedEntries[k].Type = "key"
          /\ DeletedEntries[s].Type = "service"
          /\ DeletedEntries[k].Hash = DeletedEntries[s].Hash
          /\ DeletedEntries[g].Type = "service_group"
    /\ \E r \in 1..Len(DeletedEntries) : DeletedEntries[r].Type = "relation"

\* C17: after a POST or GET of the forward pass has failed, the apply has an
\* error at that call's item and only DELETEs follow the call.
C17_AnyFailureAborts ==
    \A k \in 1..Len(calls) :
        (calls[k].method \in {"POST", "GET"} /\ ~calls[k].ok) =>
            /\ err # NoError
            /\ err.item = calls[k].item
            /\ \A m \in (k + 1)..Len(calls) : calls[m].method = "DELETE"

\* C18: after a panic in the forward pass the sweep has run once, over the
\* ledger as the forward pass left it (a DELETE for every entry the sweep's
\* switch knows), and the panic has left RunE.
C18_PanicReachesSweep ==
    pc = "panicked" =>
        LET dels == Deletes
        IN  /\ sweeps = 1
            /\ result = Panicked
            /\ \A n \in 1..Len(createdResources) :
                  RollbackPath(createdResources[n]) # NoPath =>
                      \E m \in 1..Len(dels) :
                          /\ dels[m].item.i = n
                          /\ dels[m].path = RollbackPath(createdResources[n])

C18_Witness ==
    /\ pc = "panicked" /\ cursor <= Len(Plan)
    /\ Len(createdResources) >= 2 /\ Len(Deletes) >= 2

\* C19: a file that cannot be read or parsed makes the command return that
\* error with GetToken never called, no Transport call, no ledger entry and
\* no sweep, with and without --dry-run.
C19_ParseErrorFirst ==
    configFile # "valid" =>
        /\ getTokenCalls = 0 /\ calls = <<>> /\ createdResources = <<>>
        /\ sweeps = 0 /\ total = 0
        /\ pc \in {"start", "done"}
        /\ pc = "done" => (result.returned /\ result.err.kind = "parse")

C19_Witness ==
    /\ configFile = "malformed" /\ pc = "done"
    /\ ~dryRun /\ GetToken(tokenFile, now).ok

\* C20: while the forward pass has not failed no DELETE is issued and no
\* sweep is run, and an apply whose forward pass went through returns nil.
C20_SuccessNeverDeletes ==
    /\ pc \in {"start", "forward"} => (Deletes = <<>> /\ sweeps = 0)
    /\ (pc = "done" /\ getTokenCalls = 1 /\ err = NoError) =>
          /\ Deletes = <<>> /\ sweeps = 0
          /\ result = Returned(NoError)

C20_Witness ==
    /\ pc = "done" /\ getTokenCalls = 1 /\ err = NoError
    /\ Len(createdResources) >= 3
    /\ \E k \in 1..Len(calls) : ~calls[k].ok

\* C21: every ledger entry of kind key has the hash of its service and a
\* non-empty ID, the ID under which the remote holds the key, so its DELETE
\* path is /services/<hash>/keys/<that ID>.
C21_KeyIdCarried ==
    \A n \in 1..Len(createdResources) :
        createdResources[n].Type = "key" =>
            /\ \E k \in 1..Len(doc.services) :
                  doc.services[k].hash = createdResources[n].Hash
            /\ createdResources[n].ID # ""
            /\ pc = "forward" =>
                  [svc |-> createdResources[n].Hash, id |-> createdResources[n].ID]
                      \in remote.keys

\* C22: a POST /services for a service with policy_name P follows exactly one
\* GET /politicas of that service and, when the remote's list has a policy
\* named P, carries the identifier of the first such policy in politica_id.
FirstPolicyId(rem, name) ==
    LET hits == { k \in 1..Len(rem.policies) : rem.policies[k].name = name }
    IN  rem.policies[CHOOSE k \in hits : \A j \in hits : k <= j].id

C22_PolicyScan ==
    pc = "forward" =>
        \A k \in 1..Len(calls) :
            LET P == doc.services[calls[k].item.i].policy_name
            IN  (IsServicePost(calls[k]) /\ P # "") =>
                    /\ Cardinality({ m \in 1..(k - 1) :
                                       /\ calls[m].method = "GET"
                                       /\ calls[m].path = <<"politicas">>
                                       /\ calls[m].item = calls[k].item }) = 1
                    /\ HasPolicy(remote, P) =>
                          calls[k].payload.politica_id = Str(FirstPolicyId(remote, P))

LedgerStep ==
    \/ createdResources' = createdResources
    \/ /\ Len(createdResources') = Len(createdResources) + 1
       /\ SubSeq(createdResources', 1, Len(createdResources)) = createdResources
       /\ Len(calls') > Len(calls)
       /\ LET post == calls'[Len(calls')]
              entry == createdResources'[Len(createdResources')]
          IN  /\ post.method = "POST" /\ post.ok
              /\ entry.Type = PostType(post)
              /\ entry.Hash = PostTarget(post)

C24_AppendOnly == (pc = "start" => createdResources = <<>>) /\ [][LedgerStep]_vars

C24_Witness ==
    /\ pc = "forward" /\ Len(createdResources) >= 4
    /\ \E k \in 1..Len(calls) : IsExistsCheck(calls[k]) /\ calls[k].ok

\* C25: the command comes to its end; until then the forward pass visits the
\* items in the document's order, never one twice, a sweep issues at most one
\* DELETE per ledger entry, and what is returned is nil or the error of the
\* forward pass.
ItemsInOrder ==
    LET plan == Plan
        fwd == SelectSeq(calls, LAMBDA c : c.method # "DELETE")
        Index(item) == CHOOSE n \in 1..Len(plan) : plan[n] = item
    IN  \A k \in 1..(Len(fwd) - 1) : Index(fwd[k].item) <= Index(fwd[k + 1].item)

C25_Terminates ==
    /\ [](cursor <= Len(Plan) + 1 /\ ItemsInOrder /\ sweeps <= 1
          /\ Len(Deletes) <= Len(createdResources))
    /\ [](pc = "done" => (result.returned /\ result.err \in {NoError, err}))
    /\ <>(pc = "done")

C25_Witness ==
    /\ pc = "done" /\ sweeps = 1 /\ cursor > 1
    /\ Len(Deletes) >= 1 /\ result.err = err

\* C27: a service skipped by skip-existing stays at the remote and gets no
\* DELETE; a forward pass that went through issued a POST for each of its
\* keys and relations; every successful one of these POSTs has its ledger
\* entry, and a sweep issues a DELETE for each of these entries.
SkippedServices ==
    { calls[k].item.i : k \in { m \in 1..Len(calls) :
                                  IsExistsCheck(calls[m]) /\ calls[m].ok } }

ChildEntries(h) ==
    { n \in 1..Len(createdResources) :
        /\ createdResources[n].Type \in {"key", "relation"}
        /\ createdResources[n].Hash = h }

TotalIsLedger ==
    /\ total = Len(createdResources)
    /\ total = Len(doc.events) + Len(doc.policies) + Len(doc.service_groups)
               + (Len(doc.services) - Cardinality(SkippedServices))
               + CountChildren(doc, 1)

C28_TotalsAsStated ==
    SuccessfulApply =>
        /\ TotalIsLedger
        /\ total = DryRunTotal(doc) =>
              (SkippedServices = {} /\ CountChildren(doc, 1) = 0)

\* C28 amended: ... and it is the dry-run total exactly when as many services
\* were skipped as the document has keys and relations.
C28_Totals ==
    SuccessfulApply =>
        /\ TotalIsLedger
        /\ total = DryRunTotal(doc) <=>
              Cardinality(SkippedServices) = CountChildren(doc, 1)

C28_Witness ==
    /\ SuccessfulApply
    /\ SkippedServices # {}
    /\ Cardinality(SkippedServices) = CountChildren(doc, 1)
    /\ total = DryRunTotal(doc)

\* C29: no ledger entry has two DELETEs, whichever of the error path and the
\* recover path swept, panics in the forward pass and in the sweep included.
C29_SweepOnce ==
    LET dels == Deletes
    IN  \A k, m \in 1..Len(dels) : k < m => dels[k].item.i # dels[m].item.i

\* C26: of a response that arrived with its body, request makes an error
\* with the status and the body when the status is not 2xx; it returns a
\* map and no error only when the status is 2xx; a 2xx body that is a JSON
\* array comes back as the wrapper with the array's elements, a 2xx body
\* that is a JSON object as the object's members.
Is2xx(status) == status >= 200 /\ status < 300

C26_Transport ==
    (exchange.phase = "returned" /\ exchange.resp.sent /\ exchange.resp.read) =>
        LET resp == exchange.resp
            reply == exchange.reply
            json == Value(Scan(resp.body))
        IN  /\ ~Is2xx(resp.status) =>
                  /\ reply.result = NilMap
                  /\ reply.err.kind = "request failed with status"
                  /\ reply.err.status = resp.status
                  /\ reply.err.body = resp.body
            /\ (reply.err = NoTransportError /\ ~reply.result.nil) =>
                  Is2xx(resp.status)
            /\ (Is2xx(resp.status) /\ json.t = "array") =>
                  reply = Reply(WrappedArray(json.elems), NoTransportError)
            /\ (Is2xx(resp.status) /\ json.t = "object") =>
                  reply = Reply(ObjectMap(json.elems), NoTransportError)

\* C30: a GetToken returns a token exactly when the last operation that
\* changed the store was a StoreToken and the clock was not past the expiry
\* of the token it stored, and the token it returns is that token; after a
\* Logout removed the file GetToken fails at any hour until a StoreToken
\* stores one; a Logout that finds no file returns nil and leaves no file.
SessionInv ==
    /\ session.op = "GetToken" =>
          /\ session.got.ok <=>
                (session.changed = "StoreToken" /\ session.at <= session.expiry)
          /\ session.got.ok => session.got.token = session.stored
    /\ session.changed \in {"none", "Logout"} =>
          \A clock \in 0..MaxClock : ~IsAuthenticated(tokenFile, clock)

LogoutOfNothing ==
    (session'.n = session.n + 1 /\ session'.op = "Logout" /\ ~tokenFile.exists) =>
        /\ session'.e = ""
        /\ tokenFile' = tokenFile
        /\ session'.changed = session.changed

====
